---- MODULE Spec2Model ----
(***************************************************************************)
(* Model of scripts/configure.py: the SecretStore resolver (pinned /       *)
(* persisted / generated), its load and flush against .secrets.yaml, and   *)
(* the run driven by main() and render_templates(), and the layered       *)
(* configuration: deep_merge and load_config.                              *)
(*                                                                         *)
(* A string is a sequence of one-character strings; "" is <<>>.            *)
(* The store file is a sequence of bytes: what yaml.dump writes is        *)
(* "secrets:\n" and one line "  k: v\n" per record in sorted key order,    *)
(* or the single line "secrets: {}\n" for an empty record set.  The        *)
(* emitter passes the document to the file object string by string; the   *)
(* documents here are shorter than the buffer of the file object, so the  *)
(* bytes reach the file in one write, when yaml.dump flushes the stream   *)
(* or when the file is closed.                                             *)
(***************************************************************************)
EXTENDS Integers, Sequences, FiniteSets, TLC

\* ------------------------------------------------------------------ bounds
\* The largest byte length a template passes to secret().
MaxBytes == 1
\* The number of templates under config-templates/.
MaxTemplates == 2

\* ---------------------------------------------------------------- universe
Procs == {1, 2}
KeyOrder == <<"a", "b">>
Keys == {KeyOrder[i] : i \in 1..Len(KeyOrder)}
Types == {"hex", "urlsafe", "bogus"}
PinnedVals == {<<>>, <<"p">>}

HexDigits ==
    <<"0","1","2","3","4","5","6","7","8","9","a","b","c","d","e","f">>

UrlsafeAlphabet ==
    <<"A","B","C","D","E","F","G","H","I","J","K","L","M",
      "N","O","P","Q","R","S","T","U","V","W","X","Y","Z",
      "a","b","c","d","e","f","g","h","i","j","k","l","m",
      "n","o","p","q","r","s","t","u","v","w","x","y","z",
      "0","1","2","3","4","5","6","7","8","9","-","_">>

\* ------------------------------------------------------- secrets.token_*
RECURSIVE token_hex(_)
token_hex(tok) ==
    IF tok = <<>> THEN <<>>
    ELSE <<HexDigits[(tok[1] \div 16) + 1], HexDigits[(tok[1] % 16) + 1]>>
         \o token_hex(Tail(tok))

RECURSIVE token_urlsafe(_)
token_urlsafe(tok) ==
    IF Len(tok) = 0 THEN <<>>
    ELSE IF Len(tok) = 1 THEN
        <<UrlsafeAlphabet[(tok[1] \div 4) + 1],
          UrlsafeAlphabet[((tok[1] % 4) * 16) + 1]>>
    ELSE IF Len(tok) = 2 THEN
        <<UrlsafeAlphabet[(tok[1] \div 4) + 1],
          UrlsafeAlphabet[((tok[1] % 4) * 16 + (tok[2] \div 16)) + 1],
          UrlsafeAlphabet[((tok[2] % 16) * 4) + 1]>>
    ELSE
        <<UrlsafeAlphabet[(tok[1] \div 4) + 1],
          UrlsafeAlphabet[((tok[1] % 4) * 16 + (tok[2] \div 16)) + 1],
          UrlsafeAlphabet[((tok[2] % 16) * 4 + (tok[3] \div 64)) + 1],
          UrlsafeAlphabet[(tok[3] % 64) + 1]>>
        \o token_urlsafe(SubSeq(tok, 4, Len(tok)))

\* A generator that takes every type (an unknown one falls through to the
\* last branch).
AnyType(type) == TRUE

\* SecretStore._generate: the types it knows (any other raises ValueError),
\* and the string it returns for a known type from the random bytes tok.
KnownType(type) == type = "hex" \/ type = "urlsafe"

_generate(type, tok) ==
    IF type = "hex" THEN token_hex(tok)
    ELSE token_urlsafe(tok)

\* ------------------------------------------------------- the store file
\* The file is a sequence of bytes, each a one-character string.
NL == "\n"
NUL == "NUL"
Secrets == <<"s", "e", "c", "r", "e", "t", "s">>
Null == <<"n", "u", "l", "l">>

\* The value None of a record: what yaml loads for "k:" and for "k: null".
None == <<"None">>

\* bool(v) of a record's value: "" and None are false.
Truthy(v) == v # <<>> /\ v # None

EmptyDict == [k \in {} |-> <<>>]
AbsentFile == [exists |-> FALSE, data |-> <<>>]

\* The keys of d in the order yaml.dump writes them (sort_keys).
SortedKeys(d) ==
    SelectSeq(KeyOrder, LAMBDA k : k \in DOMAIN d)

\* A string yaml would load as an integer, which yaml.dump therefore quotes
\* (of the strings the generator returns here: those made of digits).
OctDigits == {"0", "1", "2", "3", "4", "5", "6", "7"}
DecDigits == OctDigits \cup {"8", "9"}
IsInt(v) ==
    /\ Len(v) >= 1
    /\ \/ v[1] = "0" /\ \A i \in 2..Len(v) : v[i] \in OctDigits \cup {"_"}
       \/ /\ v[1] \in DecDigits \ {"0"}
          /\ \A i \in 2..Len(v) : v[i] \in DecDigits \cup {"_"}

\* The strings the emitter passes to stream.write for a record's value:
\* plain after a space, or between single quotes.
ScalarTokens(v) ==
    IF v = None THEN << <<" ">>, Null >>
    ELSE IF v = <<>> THEN << <<" ", "'">>, <<"'">> >>
    ELSE IF IsInt(v) THEN << <<" ", "'">>, v, <<"'">> >>
    ELSE << <<" ">>, v >>

RecTokens(k, v) ==
    << <<" ", " ">>, <<k>>, <<":">> >> \o ScalarTokens(v) \o << <<NL>> >>

RECURSIVE RecsTokens(_, _)
RecsTokens(d, ks) ==
    IF ks = <<>> THEN <<>>
    ELSE RecTokens(Head(ks), d[Head(ks)]) \o RecsTokens(d, Tail(ks))

\* yaml.dump({"secrets": d}, f, default_flow_style=False): the strings it
\* writes to f, in order.
yaml_tokens(d) ==
    IF DOMAIN d = {}
    THEN << Secrets, <<":">>, <<" ", "{">>, <<"}">>, <<NL>> >>
    ELSE << Secrets, <<":">>, <<NL>> >> \o RecsTokens(d, SortedKeys(d))

RECURSIVE Flatten(_)
Flatten(ts) == IF ts = <<>> THEN <<>> ELSE Head(ts) \o Flatten(Tail(ts))

\* The document yaml.dump writes: "secrets:\n", then "  k: v\n" per record.
yaml_dump(d) == Flatten(yaml_tokens(d))

\* The lines of s, without their line breaks.
RECURSIVE SplitLines(_)
SplitLines(s) ==
    IF s = <<>> THEN <<>>
    ELSE IF \E i \in 1..Len(s) : s[i] = NL
    THEN LET n == CHOOSE i \in 1..Len(s) :
                      s[i] = NL /\ \A j \in 1..(i - 1) : s[j] # NL
         IN  <<SubSeq(s, 1, n - 1)>> \o SplitLines(SubSeq(s, n + 1, Len(s)))
    ELSE <<s>>

IsBlank(l) == \A i \in 1..Len(l) : l[i] = " "

\* The value after "k:" on a line: nothing (None), a plain scalar, or a
\* single-quoted scalar, which must be closed on the line.
ParseValue(rest) ==
    IF IsBlank(rest) THEN [ok |-> TRUE, val |-> None]
    ELSE IF rest[1] # " " THEN [ok |-> FALSE, val |-> <<>>]
    ELSE LET t == Tail(rest)
         IN  IF t[1] = "'"
             THEN IF /\ Len(t) >= 2
                     /\ t[Len(t)] = "'"
                     /\ \A i \in 2..(Len(t) - 1) : t[i] # "'"
                  THEN [ok |-> TRUE, val |-> SubSeq(t, 2, Len(t) - 1)]
                  ELSE [ok |-> FALSE, val |-> <<>>]
             ELSE IF \E i \in 1..Len(t) : t[i] \in {"'", " ", ":", NUL}
             THEN [ok |-> FALSE, val |-> <<>>]
             ELSE [ok |-> TRUE, val |-> IF t = Null THEN None ELSE t]

\* A line of the document below its first line:
\*   "rec"  "  k: v", a record of the mapping under secrets
\*   "key"  "  k", a key with no colon yet
\*   "top"  "k: v" in column 0, a key beside secrets
\*   "bad"  anything else: the scanner or the parser raises
LineKind(l) ==
    IF Len(l) > 2 /\ l[1] = " " /\ l[2] = " " /\ l[3] \in Keys
    THEN IF Len(l) = 3 THEN [kind |-> "key", key |-> l[3], val |-> <<>>]
         ELSE IF l[4] # ":" THEN [kind |-> "bad", key |-> "", val |-> <<>>]
         ELSE IF ParseValue(SubSeq(l, 5, Len(l))).ok
         THEN [kind |-> "rec", key |-> l[3],
               val |-> ParseValue(SubSeq(l, 5, Len(l))).val]
         ELSE [kind |-> "bad", key |-> "", val |-> <<>>]
    ELSE IF Len(l) > 1 /\ l[1] \in Keys /\ l[2] = ":"
    THEN IF ParseValue(SubSeq(l, 3, Len(l))).ok
         THEN [kind |-> "top", key |-> l[1], val |-> <<>>]
         ELSE [kind |-> "bad", key |-> "", val |-> <<>>]
    ELSE [kind |-> "bad", key |-> "", val |-> <<>>]

\* The last record line for key k among the lines ks (a repeated key keeps
\* the last).
LastIndex(ks, k) ==
    CHOOSE i \in 1..Len(ks) :
        /\ ks[i].kind = "rec" /\ ks[i].key = k
        /\ \A j \in (i + 1)..Len(ks) : ~(ks[j].kind = "rec" /\ ks[j].key = k)

RecKeys(ks) == {ks[i].key : i \in {j \in 1..Len(ks) : ks[j].kind = "rec"}}

\* The mapping under "secrets:" made of the lines ks that follow it.
BlockSecrets(ks) ==
    IF \E i \in 1..Len(ks) : ks[i].kind = "bad"
    THEN [tag |-> "error", d |-> EmptyDict]
    ELSE IF \E i \in 1..Len(ks) : ks[i].kind = "key"
    THEN IF Len(ks) = 1 THEN [tag |-> "none", d |-> EmptyDict]
         ELSE [tag |-> "error", d |-> EmptyDict]
    ELSE IF \E i, j \in 1..Len(ks) :
                i < j /\ ks[i].kind = "top" /\ ks[j].kind = "rec"
    THEN [tag |-> "error", d |-> EmptyDict]
    ELSE IF RecKeys(ks) = {} THEN [tag |-> "none", d |-> EmptyDict]
    ELSE [tag |-> "dict",
          d |-> [k \in RecKeys(ks) |-> ks[LastIndex(ks, k)].val]]

\* yaml.safe_load(f) or {}, then data.get("secrets", {}), on the bytes of
\* the documents the store file comes to hold: a document yaml.dump wrote,
\* a beginning of one cut after any of its writes, and one document written
\* over another:
\*   tag "dict"  a mapping of records
\*   tag "none"  the value under secrets is None or a string, so that
\*               _persisted.get raises on a call
\*   tag "error" safe_load or data.get raises
safe_load_secrets(data) ==
    IF \E i \in 1..Len(data) : data[i] = NUL
    THEN [tag |-> "error", d |-> EmptyDict]
    ELSE IF \A i \in 1..Len(SplitLines(data)) : IsBlank(SplitLines(data)[i])
    THEN [tag |-> "dict", d |-> EmptyDict]
    ELSE LET lines == SplitLines(data)
             body == SelectSeq(Tail(lines), LAMBDA l : ~IsBlank(l))
             ks == [i \in 1..Len(body) |-> LineKind(body[i])]
         IN  IF lines[1] = Secrets \o <<":", " ", "{", "}">>
             THEN IF \A i \in 1..Len(ks) : ks[i].kind = "top"
                  THEN [tag |-> "dict", d |-> EmptyDict]
                  ELSE [tag |-> "error", d |-> EmptyDict]
             ELSE IF lines[1] \in {Secrets \o <<":">>, Secrets \o <<":", " ">>}
             THEN BlockSecrets(ks)
             ELSE [tag |-> "error", d |-> EmptyDict]

\* SecretStore._load
_load(f) ==
    IF f.exists THEN safe_load_secrets(f.data)
    ELSE [tag |-> "dict", d |-> EmptyDict]

\* dict.get(key, "")
Get(d, k) == IF k \in DOMAIN d THEN d[k] ELSE <<>>

\* d = {k: v}: the assignment forgets the other keys.
PutAlone(d, k, v) == [x \in {k} |-> v]

\* d[k] = v
Put(d, k, v) == [x \in DOMAIN d \cup {k} |-> IF x = k THEN v ELSE d[x]]

\* write(2) of bytes at offset pos (0-based) of the file: the bytes replace
\* what is there from pos on, the rest of the file stays, and a write past
\* the end leaves null bytes between.
WriteAt(data, pos, bytes) ==
    [i \in 1..(IF pos + Len(bytes) > Len(data) THEN pos + Len(bytes)
               ELSE Len(data)) |->
        IF i > pos /\ i <= pos + Len(bytes) THEN bytes[i - pos]
        ELSE IF i <= Len(data) THEN data[i]
        ELSE NUL]

\* ------------------------------------------------------------------ state
VARIABLES
    file,       \* .secrets.yaml: [exists, data], data its bytes
    pc,         \* per invocation: idle, init, render (between templates, or
                \* rendering where the templates are not told apart),
                \* template (template.render of one template), write (the store file
                \* is open, yaml.dump is running), written (yaml.dump has
                \* returned, the file is still open), done, aborted
    user,       \* SecretStore._user, config.get("secrets", {})
    persisted,  \* SecretStore._persisted: [tag, d]
    dirty,      \* SecretStore._dirty
    wpos,       \* offset of the file object opened by flush
    file0,      \* history: the store file when the invocation started
    loaded,     \* history: what _load returned in __init__
    first,      \* history: per key, the first value returned this session
                \* that is not "" ("" while every value returned was "")
    last,       \* history: the latest call of the resolver and its outcome
    gen,        \* history: the keys generated this session
    wrote,      \* history: flush has opened the store file for writing
    stable,     \* history: per key, the value the latest completed run
                \* that generated the key returned for it and flushed
                \* (kept by CloseRun)
    outs,       \* number of output files render_templates has written
    fatal,      \* history: the error that ended the invocation, or "none"
    rets,       \* history: per key, the values the resolver returned to
                \* the templates of this invocation (kept by RenderSecret)
    mrg,        \* one call of deep_merge: its arguments and its result
    lcf         \* one call of load_config: the files it reads and its result

vars == <<file, pc, user, persisted, dirty, wpos,
          file0, loaded, first, last, gen, wrote, stable,
          outs, fatal, rets, mrg, lcf>>

NoCall == [tier |-> "none", key |-> "", type |-> "", ret |-> <<>>]
NoFirst == [set |-> FALSE, val |-> <<>>]
NoStable == [set |-> FALSE, val |-> <<>>]
NoSession == [tag |-> "dict", d |-> EmptyDict]

NoMerge == [done |-> FALSE, base |-> EmptyDict, override |-> EmptyDict,
            res |-> EmptyDict]
\* A configuration file that is not there.
AbsentDoc == [kind |-> "absent", tree |-> EmptyDict]
NoLoad == [done |-> FALSE, base |-> AbsentDoc, path |-> FALSE,
           explicit |-> AbsentDoc, default |-> AbsentDoc,
           err |-> "none", config |-> EmptyDict]

\* The state before main() has run, the store file not yet there.
InitRun ==
    /\ file = AbsentFile
    /\ pc = [p \in Procs |-> "idle"]
    /\ user = [p \in Procs |-> [k \in Keys |-> <<>>]]
    /\ persisted = [p \in Procs |-> NoSession]
    /\ dirty = [p \in Procs |-> FALSE]
    /\ wpos = [p \in Procs |-> 0]
    /\ file0 = [p \in Procs |-> file]
    /\ loaded = [p \in Procs |-> NoSession]
    /\ first = [p \in Procs |-> [k \in Keys |-> NoFirst]]
    /\ last = [p \in Procs |-> NoCall]
    /\ gen = [p \in Procs |-> {}]
    /\ wrote = [p \in Procs |-> FALSE]
    /\ stable = [k \in Keys |-> NoStable]
    /\ outs = [p \in Procs |-> 0]
    /\ fatal = [p \in Procs |-> "none"]
    /\ rets = [p \in Procs |-> [k \in Keys |-> {}]]

Init ==
    /\ InitRun
    /\ mrg = NoMerge
    /\ lcf = NoLoad

\* ---------------------------------------------- variants of the resolver
\* __call__ without line 81: the generated value is returned, not recorded.
SecretStore_call_NoMemo(u, pst, drt, key, type, tok) ==
    IF Truthy(Get(u, key)) THEN
        [tier |-> "pinned", ret |-> Get(u, key), persisted |-> pst, dirty |-> drt]
    ELSE IF pst.tag = "none" THEN
        [tier |-> "crash", ret |-> <<>>, persisted |-> pst, dirty |-> drt]
    ELSE IF Truthy(Get(pst.d, key)) THEN
        [tier |-> "persisted", ret |-> Get(pst.d, key),
         persisted |-> pst, dirty |-> drt]
    ELSE IF ~(type = "hex" \/ type = "urlsafe") THEN
        [tier |-> "error", ret |-> <<>>, persisted |-> pst, dirty |-> drt]
    ELSE
        [tier |-> "generated",
         ret |-> IF type = "hex" THEN token_hex(tok) ELSE token_urlsafe(tok),
         persisted |-> pst, dirty |-> TRUE]

\* __call__ with the two lookups in the other order: persisted before pinned.
SecretStore_call_PersistedFirst(u, pst, drt, key, type, tok) ==
    IF pst.tag = "dict" /\ Truthy(Get(pst.d, key)) THEN
        [tier |-> "persisted", ret |-> Get(pst.d, key),
         persisted |-> pst, dirty |-> drt]
    ELSE IF Truthy(Get(u, key)) THEN
        [tier |-> "pinned", ret |-> Get(u, key), persisted |-> pst, dirty |-> drt]
    ELSE IF pst.tag = "none" THEN
        [tier |-> "crash", ret |-> <<>>, persisted |-> pst, dirty |-> drt]
    ELSE IF ~(type = "hex" \/ type = "urlsafe") THEN
        [tier |-> "error", ret |-> <<>>, persisted |-> pst, dirty |-> drt]
    ELSE
        [tier |-> "generated",
         ret |-> IF type = "hex" THEN token_hex(tok) ELSE token_urlsafe(tok),
         persisted |-> [tag |-> "dict",
                        d |-> Put(pst.d, key,
                                  IF type = "hex" THEN token_hex(tok)
                                  ELSE token_urlsafe(tok))],
         dirty |-> TRUE]

\* __call__ that marks the session dirty when the persisted tier answers.
SecretStore_call_DirtyOnRead(u, pst, drt, key, type, tok) ==
    IF Truthy(Get(u, key)) THEN
        [tier |-> "pinned", ret |-> Get(u, key), persisted |-> pst, dirty |-> drt]
    ELSE IF pst.tag = "none" THEN
        [tier |-> "crash", ret |-> <<>>, persisted |-> pst, dirty |-> drt]
    ELSE IF Truthy(Get(pst.d, key)) THEN
        [tier |-> "persisted", ret |-> Get(pst.d, key),
         persisted |-> pst, dirty |-> TRUE]
    ELSE IF ~(type = "hex" \/ type = "urlsafe") THEN
        [tier |-> "error", ret |-> <<>>, persisted |-> pst, dirty |-> drt]
    ELSE
        [tier |-> "generated",
         ret |-> IF type = "hex" THEN token_hex(tok) ELSE token_urlsafe(tok),
         persisted |-> [tag |-> "dict",
                        d |-> Put(pst.d, key,
                                  IF type = "hex" THEN token_hex(tok)
                                  ELSE token_urlsafe(tok))],
         dirty |-> TRUE]

\* __call__ without line 82: a generated value is recorded, _dirty is left.
SecretStore_call_NoDirty(u, pst, drt, key, type, tok) ==
    IF Truthy(Get(u, key)) THEN
        [tier |-> "pinned", ret |-> Get(u, key), persisted |-> pst, dirty |-> drt]
    ELSE IF pst.tag = "none" THEN
        [tier |-> "crash", ret |-> <<>>, persisted |-> pst, dirty |-> drt]
    ELSE IF Truthy(Get(pst.d, key)) THEN
        [tier |-> "persisted", ret |-> Get(pst.d, key),
         persisted |-> pst, dirty |-> drt]
    ELSE IF ~(type = "hex" \/ type = "urlsafe") THEN
        [tier |-> "error", ret |-> <<>>, persisted |-> pst, dirty |-> drt]
    ELSE
        [tier |-> "generated",
         ret |-> IF type = "hex" THEN token_hex(tok) ELSE token_urlsafe(tok),
         persisted |-> [tag |-> "dict",
                        d |-> Put(pst.d, key,
                                  IF type = "hex" THEN token_hex(tok)
                                  ELSE token_urlsafe(tok))],
         dirty |-> drt]

\* ------------------------------------------------- SecretStore.__call__
\* The outcome of secret(key, type, bytes) on a session whose fields are
\* u (_user), pst (_persisted) and drt (_dirty); tok is the random bytes
\* the generator draws.  tier names the branch that answered:
\*   pinned, persisted, generated, error (ValueError of _generate),
\*   crash (AttributeError: _persisted is None).
SecretStore_call(u, pst, drt, key, type, tok) ==
    IF Truthy(Get(u, key)) THEN
        [tier |-> "pinned", ret |-> Get(u, key), persisted |-> pst, dirty |-> drt]
    ELSE IF pst.tag = "none" THEN
        [tier |-> "crash", ret |-> <<>>, persisted |-> pst, dirty |-> drt]
    ELSE IF Truthy(Get(pst.d, key)) THEN
        [tier |-> "persisted", ret |-> Get(pst.d, key),
         persisted |-> pst, dirty |-> drt]
    ELSE IF ~KnownType(type) THEN
        [tier |-> "error", ret |-> <<>>, persisted |-> pst, dirty |-> drt]
    ELSE
        [tier |-> "generated", ret |-> _generate(type, tok),
         persisted |-> [tag |-> "dict",
                        d |-> Put(pst.d, key, _generate(type, tok))],
         dirty |-> TRUE]

Raised(r) == r.tier \in {"error", "crash"}

\* A resolver that writes the store as soon as it has generated a value.
FileAfterCallEager(f, r) ==
    IF r.tier = "generated"
    THEN [exists |-> TRUE, data |-> yaml_dump(r.persisted.d)]
    ELSE f

\* The store file after a call with outcome r: __call__ stages the value in
\* memory and does not touch the file.
FileAfterCall(f, r) == f

\* ------------------------------------------------------------- main()
\* main() starts: load_config merges the layers; u is config["secrets"].
LoadConfig(p, u) ==
    /\ pc[p] = "idle"
    /\ pc' = [pc EXCEPT ![p] = "init"]
    /\ user' = [user EXCEPT ![p] = u]
    /\ persisted' = [persisted EXCEPT ![p] = NoSession]
    /\ dirty' = [dirty EXCEPT ![p] = FALSE]
    /\ wpos' = [wpos EXCEPT ![p] = 0]
    /\ file0' = [file0 EXCEPT ![p] = file]
    /\ loaded' = [loaded EXCEPT ![p] = NoSession]
    /\ first' = [first EXCEPT ![p] = [k \in Keys |-> NoFirst]]
    /\ last' = [last EXCEPT ![p] = NoCall]
    /\ gen' = [gen EXCEPT ![p] = {}]
    /\ wrote' = [wrote EXCEPT ![p] = FALSE]
    /\ outs' = [outs EXCEPT ![p] = 0]
    /\ fatal' = [fatal EXCEPT ![p] = "none"]
    /\ rets' = [rets EXCEPT ![p] = [k \in Keys |-> {}]]
    /\ UNCHANGED <<file, stable, mrg, lcf>>

\* SecretStore.__init__: _load, then _dirty = False.  A store document
\* that does not parse raises out of main().
StoreInit(p) ==
    /\ pc[p] = "init"
    /\ IF _load(file).tag = "error"
       THEN /\ pc' = [pc EXCEPT ![p] = "aborted"]
            /\ fatal' = [fatal EXCEPT ![p] = "store_parse"]
            /\ UNCHANGED <<persisted, loaded>>
       ELSE /\ pc' = [pc EXCEPT ![p] = "render"]
            /\ persisted' = [persisted EXCEPT ![p] = _load(file)]
            /\ loaded' = [loaded EXCEPT ![p] = _load(file)]
            /\ UNCHANGED fatal
    /\ dirty' = [dirty EXCEPT ![p] = FALSE]
    /\ UNCHANGED <<file, user, wpos, file0, first, last, gen, wrote, stable,
                   outs, rets, mrg, lcf>>

\* One call secret(key, type, bytes) on the session of p; pcRaise is where
\* the caller is left when the call raises.
ResolveBody(p, key, type, tok, pcRaise) ==
    LET r == SecretStore_call(user[p], persisted[p], dirty[p], key, type, tok)
    IN  /\ persisted' = [persisted EXCEPT ![p] = r.persisted]
        /\ dirty' = [dirty EXCEPT ![p] = r.dirty]
        /\ last' = [last EXCEPT ![p] =
                        [tier |-> r.tier, key |-> key, type |-> type,
                         ret |-> r.ret]]
        /\ first' = [first EXCEPT ![p][key] =
                        IF Raised(r) \/ (@.set /\ @.val # <<>>) THEN @
                        ELSE [set |-> TRUE, val |-> r.ret]]
        /\ gen' = [gen EXCEPT ![p] =
                        IF r.tier = "generated" THEN @ \cup {key} ELSE @]
        /\ pc' = [pc EXCEPT ![p] = IF Raised(r) THEN pcRaise ELSE @]
        /\ file' = FileAfterCall(file, r)
        /\ fatal' = [fatal EXCEPT ![p] =
                        IF pcRaise # "aborted" THEN @
                        ELSE IF r.tier = "error" THEN "secret_type"
                        ELSE IF r.tier = "crash" THEN "store_null"
                        ELSE @]
        /\ UNCHANGED <<user, wpos, file0, loaded, wrote, stable,
                       outs, mrg, lcf>>

\* A template being rendered calls secret(...); an exception leaves
\* render_templates and main().
Resolve(p, key, type, tok) ==
    /\ pc[p] = "render"
    /\ ResolveBody(p, key, type, tok, "aborted")
    /\ UNCHANGED rets

\* flush without the test of _dirty: the file is opened for writing always.
FlushBodyAlways(p) ==
    /\ pc' = [pc EXCEPT ![p] = "write"]
    /\ file' = [exists |-> TRUE, data |-> <<>>]
    /\ wpos' = [wpos EXCEPT ![p] = 0]
    /\ wrote' = [wrote EXCEPT ![p] = TRUE]

\* flush that returns at once: nothing is ever written.
FlushBodySkip(p) ==
    /\ pc' = [pc EXCEPT ![p] = "done"]
    /\ UNCHANGED <<file, wpos, wrote>>

\* SecretStore.flush up to and including open(self._file, "w"), which
\* creates the file or truncates it to length zero.
FlushBody(p) ==
    IF ~dirty[p]
    THEN /\ pc' = [pc EXCEPT ![p] = "done"]
         /\ UNCHANGED <<file, wpos, wrote>>
    ELSE /\ pc' = [pc EXCEPT ![p] = "write"]
         /\ file' = [exists |-> TRUE, data |-> <<>>]
         /\ wpos' = [wpos EXCEPT ![p] = 0]
         /\ wrote' = [wrote EXCEPT ![p] = TRUE]

\* render_templates: the loop over the templates is over; flush is called.
EndRender(p) ==
    /\ pc[p] = "render"
    /\ FlushBody(p)
    /\ UNCHANGED <<user, persisted, dirty, file0, loaded, first, last,
                   gen, stable, outs, fatal, rets, mrg, lcf>>

\* yaml.dump, its last step: the emitter has passed every string of the
\* document to the file object, which kept them in its buffer, and calls
\* stream.flush(); the document reaches the file in one write at the
\* offset of the file object.
Dump(p) ==
    /\ pc[p] = "write"
    /\ pc' = [pc EXCEPT ![p] = "written"]
    /\ file' = [file EXCEPT !.data =
                   WriteAt(@, wpos[p], yaml_dump(persisted[p].d))]
    /\ wpos' = [wpos EXCEPT ![p] = @ + Len(yaml_dump(persisted[p].d))]
    /\ UNCHANGED <<user, persisted, dirty, file0, loaded, first,
                   last, gen, wrote, stable, outs, fatal, rets,
                   mrg, lcf>>

\* The with-block of flush ends: the file is closed, nothing is left to
\* write.
CloseBody(p) ==
    /\ pc[p] = "written"
    /\ pc' = [pc EXCEPT ![p] = "done"]
    /\ UNCHANGED <<file, user, persisted, dirty, wpos, file0, loaded,
                   first, last, gen, wrote, outs, fatal, rets,
                   mrg, lcf>>

Close(p) == CloseBody(p) /\ UNCHANGED stable

\* The same step, with the history of completed runs kept: the run has
\* completed, and stable takes the value it generated for each key.
CloseRun(p) ==
    /\ CloseBody(p)
    /\ stable' = [k \in Keys |->
                    IF k \in gen[p]
                    THEN [set |-> TRUE, val |-> Get(persisted[p].d, k)]
                    ELSE stable[k]]

\* The first n strings yaml.dump writes for the session of p.
DumpPrefix(p, n) == Flatten(SubSeq(yaml_tokens(persisted[p].d), 1, n))

\* The process is interrupted (a signal, a KeyboardInterrupt, an exception
\* of the renderer).  Inside yaml.dump, after n of its writes, the
\* with-block closes the file, and the close writes the strings buffered
\* so far; n = 0 is also the process killed, its buffer lost.
Interrupt(p) ==
    /\ pc[p] \in {"init", "render", "template", "write", "written"}
    /\ pc' = [pc EXCEPT ![p] = "aborted"]
    /\ IF pc[p] = "write"
       THEN \E n \in 0..Len(yaml_tokens(persisted[p].d)) :
               /\ file' = [file EXCEPT !.data =
                              WriteAt(@, wpos[p], DumpPrefix(p, n))]
               /\ wpos' = [wpos EXCEPT ![p] = @ + Len(DumpPrefix(p, n))]
       ELSE UNCHANGED <<file, wpos>>
    /\ UNCHANGED <<user, persisted, dirty, file0, loaded,
                   first, last, gen, wrote, stable, outs, fatal, rets,
                   mrg, lcf>>

\* main() returns or the exception leaves it: the process ends and the
\* session is discarded.
Exit(p) ==
    /\ pc[p] \in {"done", "aborted"}
    /\ pc' = [pc EXCEPT ![p] = "idle"]
    /\ user' = [user EXCEPT ![p] = [k \in Keys |-> <<>>]]
    /\ persisted' = [persisted EXCEPT ![p] = NoSession]
    /\ dirty' = [dirty EXCEPT ![p] = FALSE]
    /\ wpos' = [wpos EXCEPT ![p] = 0]
    /\ file0' = [file0 EXCEPT ![p] = file]
    /\ loaded' = [loaded EXCEPT ![p] = NoSession]
    /\ first' = [first EXCEPT ![p] = [k \in Keys |-> NoFirst]]
    /\ last' = [last EXCEPT ![p] = NoCall]
    /\ gen' = [gen EXCEPT ![p] = {}]
    /\ wrote' = [wrote EXCEPT ![p] = FALSE]
    /\ outs' = [outs EXCEPT ![p] = 0]
    /\ fatal' = [fatal EXCEPT ![p] = "none"]
    /\ rets' = [rets EXCEPT ![p] = [k \in Keys |-> {}]]
    /\ lcf' = NoLoad
    /\ UNCHANGED <<file, stable, mrg>>

\* A caller that keeps the session after flush calls it again.
ResolveAfterFlush(p, key, type, tok) ==
    /\ pc[p] = "done"
    /\ ResolveBody(p, key, type, tok, "done")
    /\ UNCHANGED rets

FlushAgain(p) ==
    /\ pc[p] = "done"
    /\ FlushBody(p)
    /\ UNCHANGED <<user, persisted, dirty, file0, loaded, first, last,
                   gen, stable, outs, fatal, rets, mrg, lcf>>

\* The random bytes the generator draws in these runs: n zero bytes, which
\* hex gives as a quoted record ("00") and urlsafe as a plain one ("AA").
Toks == {[i \in 1..n |-> 0] : n \in 0..MaxBytes}
Configs == [Keys -> PinnedVals]
NoPins == [k \in Keys |-> <<>>]

\* One invocation at a time, in the order main() runs its steps.
Next ==
    \/ \E u \in Configs : LoadConfig(1, u)
    \/ StoreInit(1)
    \/ \E k \in Keys, t \in Types, tok \in Toks : Resolve(1, k, t, tok)
    \/ EndRender(1)
    \/ Dump(1)
    \/ Close(1)
    \/ Interrupt(1)
    \/ Exit(1)

Spec == Init /\ [][Next]_vars

\* A sequence of runs on one store file, nothing pinned, each run completed
\* or interrupted, with the history of the completed runs kept.
NextRuns ==
    \/ LoadConfig(1, NoPins)
    \/ StoreInit(1)
    \/ \E k \in Keys, tok \in Toks : Resolve(1, k, "hex", tok)
    \/ EndRender(1)
    \/ Dump(1)
    \/ CloseRun(1)
    \/ Interrupt(1)
    \/ Exit(1)

SpecRuns == Init /\ [][NextRuns]_vars

\* The session object used as a library: calls continue after flush.
NextApi ==
    \/ Next
    \/ \E k \in Keys, t \in Types, tok \in Toks : ResolveAfterFlush(1, k, t, tok)
    \/ FlushAgain(1)

SpecApi == Init /\ [][NextApi]_vars

\* Two invocations against the same store file, each run once and to its
\* end, interleaved step by step.  Nothing is pinned, and the generator of
\* invocation p draws ConcTok(p), so that the two write different records.
ConcTok(p) == IF p = 1 THEN <<0>> ELSE <<255>>

NextConc ==
    \E p \in Procs :
        \/ LoadConfig(p, NoPins)
        \/ StoreInit(p)
        \/ \E k \in Keys : Resolve(p, k, "hex", ConcTok(p))
        \/ EndRender(p)
        \/ Dump(p)
        \/ Close(p)

SpecConc == Init /\ [][NextConc]_vars

\* ------------------------------------------------------------ deep_merge
\* A configuration value: a scalar (val is its text), a sequence (val is
\* the texts of its items) or a mapping (map, a function from keys).
Scalar(v) == [tag |-> "scalar", val |-> v, map |-> EmptyDict]
Sequence(v) == [tag |-> "seq", val |-> v, map |-> EmptyDict]
Mapping(m) == [tag |-> "map", val |-> <<>>, map |-> m]

\* isinstance(x, dict)
IsDict(x) == x.tag = "map"

\* The keys of the documents, in the order a mapping is iterated.
TreeKeyOrder == <<"a", "b", "secrets", "x", "y", "z">>
Items(d) == SelectSeq(TreeKeyOrder, LAMBDA k : k \in DOMAIN d)

\* dict.update for every key: the override value always replaces.
RECURSIVE deep_merge_shallow(_, _, _)
deep_merge_shallow(base, override, ks) ==
    IF ks = <<>> THEN base
    ELSE deep_merge_shallow(Put(base, Head(ks), override[Head(ks)]),
                            override, Tail(ks))

\* deep_merge(base, override): the loop over override.items(), ks being the
\* keys still to visit; it returns base as the assignments have left it.
RECURSIVE deep_merge_loop(_, _, _)
deep_merge_loop(base, override, ks) ==
    IF ks = <<>> THEN base
    ELSE IF /\ Head(ks) \in DOMAIN base
            /\ IsDict(base[Head(ks)])
            /\ IsDict(override[Head(ks)])
    THEN deep_merge_loop(
             Put(base, Head(ks),
                 Mapping(deep_merge_loop(base[Head(ks)].map,
                                         override[Head(ks)].map,
                                         Items(override[Head(ks)].map)))),
             override, Tail(ks))
    ELSE deep_merge_loop(Put(base, Head(ks), override[Head(ks)]),
                         override, Tail(ks))

deep_merge(base, override) == deep_merge_loop(base, override, Items(override))

\* The mappings deep_merge is applied to: leaves and one level of nesting
\* under the keys a and b, and the two examples of the merge's description.
MergeLeaves == {Scalar(<<"1">>), Sequence(<<"1", "2">>)}
PartialMaps(ks, vals) == UNION {[S -> vals] : S \in SUBSET ks}
MergeInner == PartialMaps({"x", "y"}, MergeLeaves)
MergeDicts ==
    PartialMaps({"a", "b"}, MergeLeaves \cup {Mapping(m) : m \in MergeInner})

Ex1Base == [k \in {"a"} |->
               Mapping([j \in {"x", "y"} |->
                           IF j = "x" THEN Scalar(<<"1">>) ELSE Scalar(<<"2">>)])]
Ex1Override == [k \in {"a"} |->
               Mapping([j \in {"y", "z"} |->
                           IF j = "y" THEN Scalar(<<"3">>) ELSE Scalar(<<"4">>)])]
Ex2Base == [k \in {"a"} |-> Mapping([j \in {"x"} |-> Scalar(<<"1">>)])]
Ex2Override == [k \in {"a"} |-> Scalar(<<"s", "c", "a", "l", "a", "r">>)]

MergeInputs ==
    (MergeDicts \X MergeDicts)
        \cup {<<Ex1Base, Ex1Override>>, <<Ex2Base, Ex2Override>>}

InitMerge ==
    /\ InitRun
    /\ lcf = NoLoad
    /\ \E io \in MergeInputs :
          mrg = [done |-> FALSE, base |-> io[1], override |-> io[2],
                 res |-> EmptyDict]

\* deep_merge(base, override) is called and returns.
Merge ==
    /\ ~mrg.done
    /\ mrg' = [mrg EXCEPT !.done = TRUE,
                          !.res = deep_merge(mrg.base, mrg.override)]
    /\ UNCHANGED <<file, pc, user, persisted, dirty, wpos, file0, loaded,
                   first, last, gen, wrote, stable, outs, fatal, rets,
                   lcf>>

NextMerge == Merge

SpecMerge == InitMerge /\ [][NextMerge]_vars

\* ----------------------------------------------------------- load_config
\* A configuration file by what yaml.safe_load makes of it: "empty" (no
\* document, or a falsy one: None), "bad" (a parse error), "scalar" (a
\* truthy value that is no mapping), "map" (a mapping, in tree).
EmptyDoc == [kind |-> "empty", tree |-> EmptyDict]
BadDoc == [kind |-> "bad", tree |-> EmptyDict]
ScalarDoc == [kind |-> "scalar", tree |-> EmptyDict]
MapDoc(t) == [kind |-> "map", tree |-> t]

\* yaml.safe_load(f) without "or {}": None reaches deep_merge, whose
\* override.items() raises.
safe_load_layer_strict(doc) ==
    IF doc.kind = "bad" THEN [err |-> "layer_parse", tree |-> EmptyDict]
    ELSE IF doc.kind \in {"scalar", "empty"}
    THEN [err |-> "layer_type", tree |-> EmptyDict]
    ELSE [err |-> "none", tree |-> doc.tree]

\* yaml.safe_load(f) or {} on a file that is there, as deep_merge takes it:
\* a parse error raises, and so does override.items() on a non-mapping.
safe_load_layer(doc) ==
    IF doc.kind = "bad" THEN [err |-> "layer_parse", tree |-> EmptyDict]
    ELSE IF doc.kind = "scalar" THEN [err |-> "layer_type", tree |-> EmptyDict]
    ELSE IF doc.kind = "empty" THEN [err |-> "none", tree |-> EmptyDict]
    ELSE [err |-> "none", tree |-> doc.tree]

\* with open(path) as f: deep_merge(config, yaml.safe_load(f) or {})
merge_layer(config, doc) ==
    LET l == safe_load_layer(doc)
    IN  IF l.err # "none" THEN [err |-> l.err, config |-> EmptyDict]
        ELSE [err |-> "none", config |-> deep_merge(config, l.tree)]

\* load_config without the local layer: config.yaml alone is read.
load_config_base_only(base, local_path, explicit, default) ==
    IF base.kind = "absent"
    THEN [err |-> "base_missing", config |-> EmptyDict]
    ELSE merge_layer(EmptyDict, base)

\* load_config without the test of p.exists(): a --local file that is not
\* there is passed over like an absent config.local.yaml.
load_config_lenient(base, local_path, explicit, default) ==
    LET c1 == IF base.kind = "absent"
              THEN [err |-> "base_missing", config |-> EmptyDict]
              ELSE merge_layer(EmptyDict, base)
    IN  IF c1.err # "none" THEN c1
        ELSE IF local_path /\ explicit.kind # "absent"
        THEN merge_layer(c1.config, explicit)
        ELSE IF ~local_path /\ default.kind # "absent"
        THEN merge_layer(c1.config, default)
        ELSE c1

\* load_config(local_path): base is config.yaml, local_path tells whether
\* --local was given, explicit is the file it names, default is
\* config.local.yaml.  err is "none" when the merged config is returned.
load_config(base, local_path, explicit, default) ==
    LET c1 == IF base.kind = "absent"
              THEN [err |-> "base_missing", config |-> EmptyDict]
              ELSE merge_layer(EmptyDict, base)
    IN  IF c1.err # "none" THEN c1
        ELSE IF local_path
        THEN IF explicit.kind = "absent"
             THEN [err |-> "local_missing", config |-> EmptyDict]
             ELSE merge_layer(c1.config, explicit)
        ELSE IF default.kind # "absent"
        THEN merge_layer(c1.config, default)
        ELSE c1

\* The layer documents: a mapping has an optional section "secrets" that
\* pins keys, and an optional setting "x".
SecretSections == PartialMaps(Keys, {Scalar(v) : v \in PinnedVals})
LayerTrees ==
    {[k \in {"x"} |-> Scalar(<<"1">>)], EmptyDict}
        \cup UNION {{[k \in {"secrets"} |-> Mapping(m)],
                     [k \in {"secrets", "x"} |->
                         IF k = "x" THEN Scalar(<<"2">>) ELSE Mapping(m)]}
                    : m \in SecretSections}
ConfigDocs ==
    {AbsentDoc, EmptyDoc, BadDoc, ScalarDoc} \cup {MapDoc(t) : t \in LayerTrees}

InitCfg ==
    /\ InitRun
    /\ mrg = NoMerge
    /\ \E b \in ConfigDocs, lp \in BOOLEAN, e \in ConfigDocs, d \in ConfigDocs :
          lcf = [done |-> FALSE, base |-> b, path |-> lp, explicit |-> e,
                 default |-> d, err |-> "none", config |-> EmptyDict]

\* load_config is called on the files and returns or raises.
LoadCfg ==
    /\ ~lcf.done
    /\ LET r == load_config(lcf.base, lcf.path, lcf.explicit, lcf.default)
       IN  lcf' = [lcf EXCEPT !.done = TRUE, !.err = r.err,
                              !.config = r.config]
    /\ UNCHANGED <<file, pc, user, persisted, dirty, wpos, file0, loaded,
                   first, last, gen, wrote, stable, outs, fatal, rets,
                   mrg>>

NextCfg == LoadCfg

SpecCfg == InitCfg /\ [][NextCfg]_vars

\* ------------------------------------------------- main() on its files
\* config.get("secrets", {}) as the resolver reads it: the value pinned
\* under each key, "" for a key the section lacks.
user_secrets(config) ==
    [k \in Keys |->
        IF "secrets" \in DOMAIN config /\ k \in DOMAIN config["secrets"].map
        THEN config["secrets"].map[k].val
        ELSE <<>>]

\* main() starts on the files b (config.yaml), e (the file --local names,
\* when lp) and d (config.local.yaml); sys.exit(1) or an exception of
\* load_config ends it, otherwise config["secrets"] goes to the resolver.
Main(p, b, lp, e, d) ==
    LET r == load_config(b, lp, e, d)
    IN  /\ pc[p] = "idle"
        /\ lcf' = [done |-> TRUE, base |-> b, path |-> lp, explicit |-> e,
                   default |-> d, err |-> r.err, config |-> r.config]
        /\ pc' = [pc EXCEPT ![p] = IF r.err = "none" THEN "init" ELSE "aborted"]
        /\ fatal' = [fatal EXCEPT ![p] = r.err]
        /\ user' = [user EXCEPT ![p] = user_secrets(r.config)]
        /\ persisted' = [persisted EXCEPT ![p] = NoSession]
        /\ dirty' = [dirty EXCEPT ![p] = FALSE]
        /\ wpos' = [wpos EXCEPT ![p] = 0]
        /\ file0' = [file0 EXCEPT ![p] = file]
        /\ loaded' = [loaded EXCEPT ![p] = NoSession]
        /\ first' = [first EXCEPT ![p] = [k \in Keys |-> NoFirst]]
        /\ last' = [last EXCEPT ![p] = NoCall]
        /\ gen' = [gen EXCEPT ![p] = {}]
        /\ wrote' = [wrote EXCEPT ![p] = FALSE]
        /\ outs' = [outs EXCEPT ![p] = 0]
        /\ rets' = [rets EXCEPT ![p] = [k \in Keys |-> {}]]
        /\ UNCHANGED <<file, stable, mrg>>

\* The loop of render_templates takes the next template (there are at most
\* MaxTemplates) and template.render starts.
NextTemplate(p) ==
    /\ pc[p] = "render"
    /\ outs[p] < MaxTemplates
    /\ pc' = [pc EXCEPT ![p] = "template"]
    /\ UNCHANGED <<file, user, persisted, dirty, wpos, file0, loaded,
                   first, last, gen, wrote, stable, outs, fatal, rets,
                   mrg, lcf>>

\* template.render of the template in hand calls secret(...); an exception
\* leaves render_templates and main().
RenderSecret(p, key, type, tok) ==
    /\ pc[p] = "template"
    /\ ResolveBody(p, key, type, tok, "aborted")
    /\ LET r == SecretStore_call(user[p], persisted[p], dirty[p], key, type, tok)
       IN  rets' = [rets EXCEPT ![p][key] =
                       IF Raised(r) THEN @ ELSE @ \cup {r.ret}]

\* template.render has returned; dest.write_text(rendered) writes the
\* output file of the template in hand, and the loop goes on.
WriteOutput(p) ==
    /\ pc[p] = "template"
    /\ pc' = [pc EXCEPT ![p] = "render"]
    /\ outs' = [outs EXCEPT ![p] = @ + 1]
    /\ UNCHANGED <<file, user, persisted, dirty, wpos, file0, loaded,
                   first, last, gen, wrote, stable, fatal, rets, mrg, lcf>>

\* The files main() is run on.
PinA == [k \in {"secrets"} |-> Mapping([j \in {"a"} |-> Scalar(<<"p">>)])]
PinB == [k \in {"secrets"} |-> Mapping([j \in {"b"} |-> Scalar(<<"p">>)])]
UnpinA == [k \in {"secrets"} |-> Mapping([j \in {"a"} |-> Scalar(<<>>)])]
NoLocal == <<MapDoc(EmptyDict), FALSE, AbsentDoc, AbsentDoc>>
DefaultPinsB == <<MapDoc(EmptyDict), FALSE, AbsentDoc, MapDoc(PinB)>>
ExplicitPinsB == <<MapDoc(PinA), TRUE, MapDoc(PinB), AbsentDoc>>
ExplicitUnpinsA == <<MapDoc(PinA), TRUE, MapDoc(UnpinA), MapDoc(PinB)>>
ExplicitEmpty == <<MapDoc(PinA), TRUE, EmptyDoc, AbsentDoc>>
ExplicitMissing == <<MapDoc(PinA), TRUE, AbsentDoc, MapDoc(PinB)>>
BaseUnparseable == <<BadDoc, FALSE, AbsentDoc, AbsentDoc>>
MainFiles ==
    {NoLocal, DefaultPinsB, ExplicitPinsB, ExplicitUnpinsA, ExplicitEmpty,
     ExplicitMissing, BaseUnparseable}

\* What the templates ask for in these runs: hex or an unknown type, of no
\* byte or one byte.
MainTypes == {"hex", "bogus"}
MainToks == {<<>>, <<0>>}

NextMain ==
    \/ \E fs \in MainFiles : Main(1, fs[1], fs[2], fs[3], fs[4])
    \/ StoreInit(1)
    \/ NextTemplate(1)
    \/ \E k \in Keys, t \in MainTypes, tok \in MainToks :
          RenderSecret(1, k, t, tok)
    \/ WriteOutput(1)
    \/ EndRender(1)
    \/ Dump(1)
    \/ Close(1)
    \/ Interrupt(1)
    \/ Exit(1)

SpecMain == Init /\ [][NextMain]_vars

\* ================================================================ claims
Returned(c) == c.tier \in {"pinned", "persisted", "generated"}

\* The value a load of store file f yields for key k ("" when there is none).
FileRec(f, k) == IF _load(f).tag = "dict" THEN Get(_load(f).d, k) ELSE <<>>

\* The complete document a flush of session p writes.
FullDoc(p) == [exists |-> TRUE, data |-> yaml_dump(persisted[p].d)]

\* A step of invocation p that is one call of the resolver: it returned
\* (the invocation goes on rendering) or it raised (the invocation aborts).
CallStep(p) ==
    /\ pc[p] = "render"
    /\ \/ pc'[p] = "render" /\ Returned(last'[p])
       \/ pc'[p] = "aborted" /\ Raised(last'[p])

\* C1 as stated: within one session a call that returns a value for a key
\* returns the value the calls before it returned for that key, whatever
\* type and byte length each call passes, before flush as well as after it.
C1_OneValuePerKey ==
    [][\A p \in Procs :
          (/\ pc[p] \in {"render", "done"}
           /\ pc'[p] = pc[p]
           /\ Returned(last'[p])
           /\ first[p][last'[p].key].set) =>
              last'[p].ret = first[p][last'[p].key].val]_vars

\* C1 amended: once a call has returned a value other than the empty string
\* for a key, every later call of the session with that key returns that
\* value (the empty string is what a generation of byte length 0 returns).
C1_OneValuePerKeyNonEmpty ==
    [][\A p \in Procs :
          (/\ pc[p] \in {"render", "done"}
           /\ pc'[p] = pc[p]
           /\ Returned(last'[p])
           /\ first[p][last'[p].key].set
           /\ first[p][last'[p].key].val # <<>>) =>
              last'[p].ret = first[p][last'[p].key].val]_vars

\* A key generated in this session is asked for again, before flush, with
\* another type than the one that generated it.
C1_Witness ==
    /\ pc[1] = "render"
    /\ last[1].tier = "persisted"
    /\ last[1].key \in gen[1]
    /\ last[1].type = "bogus"
    /\ last[1].ret # <<>>

\* C2: when the merged configuration pins a non-empty value for the key, the
\* call returns exactly that value, whatever the loaded store holds.
C2_PinnedDominates ==
    \A p \in Procs :
        (last[p].tier # "none" /\ Get(user[p], last[p].key) # <<>>) =>
            /\ last[p].tier = "pinned"
            /\ last[p].ret = Get(user[p], last[p].key)

\* The pinned value was returned while the store holds another one.
C2_Witness ==
    /\ last[1].tier = "pinned"
    /\ Truthy(Get(loaded[1].d, last[1].key))
    /\ Get(loaded[1].d, last[1].key) # last[1].ret

\* C3, for a value that is not the empty string (a generation of byte
\* length 0 returns "", which no run takes for a value): once a run has
\* generated a value for k and completed its flush, every call for k of a
\* later run on the same store file in which k is still not pinned is
\* answered by the persisted tier with that value, whatever the runs in
\* between did.
C3_StableAcrossRuns ==
    \A p \in Procs :
        (/\ last[p].tier # "none"
         /\ ~wrote[p]
         /\ stable[last[p].key].set
         /\ stable[last[p].key].val # <<>>
         /\ Get(user[p], last[p].key) = <<>>) =>
            /\ last[p].tier = "persisted"
            /\ last[p].ret = stable[last[p].key].val

\* C4: a non-empty value the store file holds for a key is the value every
\* later state of the store file holds for that key.
C4_NeverOverwritten ==
    [][\A k \in Keys :
          Truthy(FileRec(file, k)) =>
              FileRec(file', k) = FileRec(file, k)]_vars

\* C5: a run that generated no secret and reached its end has not written
\* the store file: the file is as it was when the run started, absent if it
\* was absent.
C5_NoOpFlush ==
    \A p \in Procs :
        (pc[p] = "done" /\ gen[p] = {}) => (file = file0[p] /\ ~wrote[p])

\* A run over an existing store ended after a call the persisted tier
\* answered.
C5_Witness ==
    /\ pc[1] = "done"
    /\ gen[1] = {}
    /\ last[1].tier = "persisted"
    /\ file0[1].exists

\* C6: a call answered by the pinned or the persisted tier leaves the record
\* set and the dirty flag of the session, and the store file, as they were.
C6_ReadLeavesSession ==
    [][\A p \in Procs :
          (CallStep(p) /\ last'[p].tier \in {"pinned", "persisted"}) =>
              /\ persisted'[p] = persisted[p]
              /\ dirty'[p] = dirty[p]
              /\ file' = file]_vars

\* The pinned tier answered in a session that is not dirty.
C6_Witness ==
    /\ pc[1] = "render"
    /\ last[1].tier = "pinned"
    /\ ~dirty[1]
    /\ loaded[1].d # EmptyDict

\* C7 as stated: every call whose type is neither hex nor urlsafe raises and
\* returns no value, and leaves the record set and the dirty flag unchanged.
C7_UnknownTypeAlwaysFatal ==
    [][\A p \in Procs :
          (CallStep(p) /\ ~(last'[p].type \in {"hex", "urlsafe"})) =>
              /\ Raised(last'[p])
              /\ persisted'[p] = persisted[p]
              /\ dirty'[p] = dirty[p]]_vars

\* C7 amended: a call whose type is neither hex nor urlsafe returns the
\* pinned value when there is a non-empty one, else the persisted value when
\* there is a non-empty one, and only otherwise raises and returns no value;
\* in each case the record set and the dirty flag are unchanged.
C7_UnknownTypeFatalWhenGenerating ==
    [][\A p \in Procs :
          (CallStep(p) /\ ~(last'[p].type \in {"hex", "urlsafe"})) =>
              /\ persisted'[p] = persisted[p]
              /\ dirty'[p] = dirty[p]
              /\ IF Get(user[p], last'[p].key) # <<>>
                 THEN last'[p].tier = "pinned"
                 ELSE IF persisted[p].tag = "dict"
                         /\ Truthy(Get(persisted[p].d, last'[p].key))
                 THEN last'[p].tier = "persisted"
                 ELSE Raised(last'[p]) /\ last'[p].ret = <<>>]_vars

\* A call with an unknown type raised in a session that had generated.
C7_Witness ==
    /\ pc[1] = "aborted"
    /\ last[1].tier = "error"
    /\ last[1].type = "bogus"
    /\ dirty[1]

\* C8: after an interruption during a dirty flush the store file still
\* holds every record of a non-empty value it held when the run started,
\* with the same value.
C8_FlushAtomic ==
    \A p \in Procs :
        (pc[p] = "aborted" /\ wrote[p]) =>
            \A k \in Keys :
                Truthy(FileRec(file0[p], k)) =>
                    FileRec(file, k) = FileRec(file0[p], k)

\* C9: when two interleaved invocations have both ended, the store file is
\* the complete document one of them wrote (or untouched if neither wrote).
C9_NoHalfWrittenStore ==
    (\A p \in Procs : pc[p] = "done") =>
        \/ \E p \in Procs : wrote[p] /\ file = FullDoc(p)
        \/ \A p \in Procs : ~wrote[p] /\ file = file0[p]

\* C10: a run that ended before flush opened the store file, by an
\* interruption or an error, leaves the file as it was at the run's start.
C10_AbortBeforeFlush ==
    \A p \in Procs :
        (pc[p] = "aborted" /\ ~wrote[p]) => file = file0[p]

\* A run was interrupted after it had generated a secret.
C10_Witness ==
    /\ pc[1] = "aborted"
    /\ ~wrote[1]
    /\ last[1].tier = "generated"
    /\ dirty[1]

\* C11: a fatal error ends the invocation before any destructive write: when
\* it aborts, the invocation has written no output file and has not written
\* the store file.
C11_FatalBeforeAnyWrite ==
    (pc[1] = "aborted" /\ fatal[1] # "none") =>
        /\ outs[1] = 0
        /\ ~wrote[1]
        /\ file = file0[1]

\* The local layer of the invocation, and the keys a layer pins.
LocalDoc == IF lcf.path THEN lcf.explicit ELSE lcf.default
DocTree(doc) == IF doc.kind = "map" THEN doc.tree ELSE <<>>
PinnedIn(doc, k) ==
    /\ "secrets" \in DOMAIN DocTree(doc)
    /\ k \in DOMAIN DocTree(doc)["secrets"].map
    /\ DocTree(doc)["secrets"].map[k].val # <<>>
LocalOnlyPins == {k \in Keys : PinnedIn(LocalDoc, k) /\ ~PinnedIn(lcf.base, k)}
MergedPin(k) ==
    IF "secrets" \in DOMAIN DocTree(LocalDoc)
       /\ k \in DOMAIN DocTree(LocalDoc)["secrets"].map
    THEN DocTree(LocalDoc)["secrets"].map[k].val
    ELSE IF "secrets" \in DOMAIN DocTree(lcf.base)
            /\ k \in DOMAIN DocTree(lcf.base)["secrets"].map
    THEN DocTree(lcf.base)["secrets"].map[k].val
    ELSE <<>>

\* C12: a call of the resolver is made only once load_config has merged
\* every layer, the pins it reads being those of the merged layers; a key
\* that only the local layer pins to a non-empty value is not generated, its
\* record in the session stays as loaded and the store file's record of it
\* at the end is the one at the start.
C12_ResolveAfterMerge ==
    /\ (last[1] # NoCall \/ gen[1] # {}) =>
           /\ lcf.done
           /\ lcf.err = "none"
           /\ \A k \in Keys : user[1][k] = MergedPin(k)
    /\ lcf.done =>
           \A k \in LocalOnlyPins :
               /\ k \notin gen[1]
               /\ pc[1] \in {"render", "template", "write", "written", "done"} =>
                      /\ Get(persisted[1].d, k) = Get(loaded[1].d, k)
                      /\ k \in DOMAIN persisted[1].d <=> k \in DOMAIN loaded[1].d
               /\ pc[1] = "done" => FileRec(file, k) = FileRec(file0[1], k)

\* An invocation whose local layer alone pins b generated a, was asked for b
\* and flushed.
C12_Witness ==
    /\ pc[1] = "done"
    /\ wrote[1]
    /\ "b" \in LocalOnlyPins
    /\ gen[1] = {"a"}
    /\ rets[1]["b"] = {<<"p">>}
    /\ FileRec(file, "b") = <<>>

\* The merge as its description defines it, key by key: a key of override
\* whose values in base and override are both mappings is merged
\* recursively, any other key of override takes override's value, and a key
\* of base that override lacks keeps base's value.
RECURSIVE RefMerge(_, _)
RefMerge(b, o) ==
    [k \in DOMAIN b \cup DOMAIN o |->
        IF k \notin DOMAIN o THEN b[k]
        ELSE IF k \in DOMAIN b /\ b[k].tag = "map" /\ o[k].tag = "map"
        THEN [tag |-> "map", val |-> <<>>, map |-> RefMerge(b[k].map, o[k].map)]
        ELSE o[k]]

Ex1Result ==
    [k \in {"a"} |->
        Mapping([j \in {"x", "y", "z"} |->
                    IF j = "x" THEN Scalar(<<"1">>)
                    ELSE IF j = "y" THEN Scalar(<<"3">>)
                    ELSE Scalar(<<"4">>)])]

\* C13: deep_merge(base, override) is the key-by-key merge of base and
\* override for every pair of mappings, and gives the results the two
\* examples state.
C13_DeepMergeIsReference ==
    mrg.done =>
        /\ mrg.res = RefMerge(mrg.base, mrg.override)
        /\ (mrg.base = Ex1Base /\ mrg.override = Ex1Override) =>
               mrg.res = Ex1Result
        /\ (mrg.base = Ex2Base /\ mrg.override = Ex2Override) =>
               mrg.res = Ex2Override

\* A mapping was merged into a mapping under a key, with a key of its own
\* kept, a key replaced and a key added.
C13_Witness ==
    /\ mrg.done
    /\ mrg.base = Ex1Base
    /\ mrg.override = Ex1Override
    /\ mrg.res["a"].map["x"] = Scalar(<<"1">>)

\* load_config was called with no local layer at all, or with an explicit
\* path that names an empty document.
NoLocalLayer == ~lcf.path /\ lcf.default.kind = "absent"
EmptyLocalLayer == lcf.path /\ lcf.explicit.kind = "empty"

\* C14: with no explicit path and no default local file, load_config gives
\* the tree it gives with an explicit path that names an empty document,
\* the base layer alone, and neither is an error.
C14_AbsentLocalIsEmptyOverride ==
    (lcf.done /\ (NoLocalLayer \/ EmptyLocalLayer)) =>
        /\ lcf.base.kind \in {"empty", "map"} =>
               /\ lcf.err = "none"
               /\ lcf.config = lcf.base.tree
        /\ lcf.base.kind \notin {"empty", "map"} =>
               lcf.err \in {"base_missing", "layer_parse", "layer_type"}

\* An explicit path naming an empty document was merged over a base layer
\* that pins a secret.
C14_Witness ==
    /\ lcf.done
    /\ EmptyLocalLayer
    /\ lcf.err = "none"
    /\ "secrets" \in DOMAIN lcf.config
    /\ lcf.config = lcf.base.tree

BaseUsable == lcf.base.kind \in {"empty", "map"}

\* C15: when --local names a file that is not there, the invocation ends in
\* load_config: the store is not loaded, no call of the resolver is made,
\* nothing is generated, no output and no store file is written.  When no
\* path is given and config.local.yaml is not there, load_config returns
\* and the invocation goes on.
C15_ExplicitMissingIsFatal ==
    (lcf.done /\ BaseUsable) =>
        /\ (lcf.path /\ lcf.explicit.kind = "absent") =>
               /\ pc[1] = "aborted"
               /\ fatal[1] = "local_missing"
               /\ lcf.err = "local_missing"
               /\ loaded[1] = NoSession
               /\ persisted[1] = NoSession
               /\ last[1] = NoCall
               /\ gen[1] = {}
               /\ outs[1] = 0
               /\ ~wrote[1]
               /\ file = file0[1]
        /\ (~lcf.path /\ lcf.default.kind = "absent") =>
               /\ lcf.err = "none"
               /\ fatal[1] \notin {"local_missing", "base_missing",
                                   "layer_parse", "layer_type"}
               /\ lcf.config = DocTree(lcf.base)

\* An invocation was given a path to no file while the store file of an
\* earlier invocation is there.
C15_Witness ==
    /\ pc[1] = "aborted"
    /\ fatal[1] = "local_missing"
    /\ lcf.path /\ lcf.explicit.kind = "absent"
    /\ file.exists

\* A step that is one call of the resolver answered by the generated tier,
\* while rendering or on the session kept after flush.
GeneratedStep ==
    /\ pc[1] \in {"render", "done"}
    /\ pc'[1] = pc[1]
    /\ last'[1].tier = "generated"

\* C16: a call for key k answered by the generated tier found no non-empty
\* pinned or persisted value for k, leaves the returned value recorded in
\* the session under k and every other record as it was, and leaves the
\* session dirty; and the session is dirty exactly when a value has been
\* generated in it.
C16_GeneratedIsStaged ==
    [][/\ GeneratedStep =>
              LET k == last'[1].key
              IN  /\ Get(user[1], k) = <<>>
                  /\ ~Truthy(Get(persisted[1].d, k))
                  /\ DOMAIN persisted'[1].d = DOMAIN persisted[1].d \cup {k}
                  /\ persisted'[1].d[k] = last'[1].ret
                  /\ \A j \in DOMAIN persisted[1].d \ {k} :
                         persisted'[1].d[j] = persisted[1].d[j]
                  /\ dirty'[1]
       /\ dirty'[1] <=> gen'[1] # {}
      ]_vars

\* A value was generated for b in a session that had loaded a record of a:
\* both records are in the session, which is dirty.
C16_Witness ==
    /\ pc[1] = "render"
    /\ last[1].tier = "generated"
    /\ last[1].key = "b"
    /\ last[1].ret # <<>>
    /\ Truthy(Get(loaded[1].d, "a"))
    /\ Get(persisted[1].d, "a") = Get(loaded[1].d, "a")
    /\ Get(persisted[1].d, "b") = last[1].ret
    /\ dirty[1]

\* C17: when an invocation that generated a value has completed, the store
\* file holds a record for exactly the keys loaded at the start and the keys
\* generated; a loaded key that was not generated keeps its loaded value, a
\* generated key has the value the resolver returned for it, and a key that
\* is pinned only has no record.
C17_FlushWritesAll ==
    (pc[1] = "done" /\ gen[1] # {}) =>
        /\ _load(file).tag = "dict"
        /\ DOMAIN _load(file).d = DOMAIN loaded[1].d \cup gen[1]
        /\ \A k \in DOMAIN loaded[1].d \ gen[1] :
               _load(file).d[k] = loaded[1].d[k]
        /\ \A k \in gen[1] : _load(file).d[k] = first[1][k].val
        /\ \A k \in Keys :
               (user[1][k] # <<>> /\ k \notin DOMAIN loaded[1].d) =>
                   k \notin DOMAIN _load(file).d

\* An invocation that had loaded a record of a and pins a generated b and
\* completed: the file holds the old record of a and the new one of b.
C17_Witness ==
    /\ pc[1] = "done"
    /\ gen[1] = {"b"}
    /\ Truthy(Get(loaded[1].d, "a"))
    /\ FileRec(file, "a") = Get(loaded[1].d, "a")
    /\ Truthy(FileRec(file, "b"))
    /\ FileRec(file0[1], "b") = <<>>

\* C18: the store file is opened for writing at most once in a session, and
\* only when rendering is over: a flush on a session that has been flushed
\* does not write the file again.
C18_FlushAtMostOnce ==
    [][(pc[1] # "write" /\ pc'[1] = "write") =>
           (pc[1] = "render" /\ ~wrote[1])]_vars

\* The value v the resolver returned for key k can be had again after the
\* invocation: it is the non-empty pinned value or the store file's record.
Recoverable(k, v) ==
    \/ v # <<>> /\ v = user[1][k]
    \/ v = FileRec(file, k)

\* C19 as stated: when an invocation has completed, every value the
\* resolver returned in it is the pinned value of its key or the value the
\* store file holds for the key.
C19_ReturnedIsRecoverable ==
    pc[1] = "done" =>
        \A k \in Keys : \A v \in rets[1][k] : Recoverable(k, v)

\* C19, amended: when an invocation has completed, every non-empty value
\* the resolver returned in it is the pinned value of its key or the value
\* the store file holds for the key.
C19_NonEmptyReturnedIsRecoverable ==
    pc[1] = "done" =>
        \A k \in Keys : \A v \in rets[1][k] : v # <<>> => Recoverable(k, v)

\* For a the resolver returned the empty string and then a generated value,
\* which the store file holds at the end.
C19_Witness ==
    /\ pc[1] = "done"
    /\ wrote[1]
    /\ <<>> \in rets[1]["a"]
    /\ \E v \in rets[1]["a"] : v # <<>> /\ v = FileRec(file, "a")

====
